---- MODULE Spec2Model ----
(***************************************************************************)
(* Model of deploy.py, the one-shot setup and deployment script of         *)
(* microcap-quant: main() runs check_python_version, create_env_file,      *)
(* install_dependencies, create_directories, run_tests and                 *)
(* show_deployment_options in sequence, then prints the completion report. *)
(*                                                                         *)
(* Text is a sequence of tokens.  A token is one character, except that a  *)
(* key name of the template, a fixed value of the template, the text of a  *)
(* comment and a placeholder such as "{openai_key}" are one token each.    *)
(* The end of a line is the token "\n".                                    *)
(*                                                                         *)
(* Host faults the script does not handle anywhere (end of input at a      *)
(* prompt, an interrupt, an unwritable working directory) are outside the  *)
(* model.                                                                  *)
(***************************************************************************)
EXTENDS Integers, Sequences, FiniteSets, TLC

\* Largest number of blanks the operator types before and after an answer.
MaxPad == 1

\* ------------------------------------------------------------------------
\* Text helpers
\* ------------------------------------------------------------------------

NL == "\n"

Whitespace == {" ", "\t", NL}

\* str.lstrip(): drop leading whitespace.
RECURSIVE LStrip(_)
LStrip(s) ==
    IF s = <<>> THEN <<>>
    ELSE IF Head(s) \in Whitespace THEN LStrip(Tail(s)) ELSE s

\* str.rstrip(): drop trailing whitespace.
RECURSIVE RStrip(_)
RStrip(s) ==
    IF s = <<>> THEN <<>>
    ELSE IF s[Len(s)] \in Whitespace THEN RStrip(SubSeq(s, 1, Len(s) - 1)) ELSE s

\* A plausible slip: only leading whitespace is removed.
StripLeadingOnly(s) == LStrip(s)

\* str.strip()
Strip(s) == RStrip(LStrip(s))

\* A plausible slip: the test of the prefix is the wrong way round.
StartsWithNegated(s, prefix) ==
    ~(/\ Len(s) >= Len(prefix)
      /\ SubSeq(s, 1, Len(prefix)) = prefix)

\* str.startswith(prefix)
StartsWith(s, prefix) ==
    /\ Len(s) >= Len(prefix)
    /\ SubSeq(s, 1, Len(prefix)) = prefix

\* `a or b` on strings: the empty string is falsy.
OrDefault(s, default) == IF s = <<>> THEN default ELSE s

\* input(): one line of the operator's typing, without its line end.
\* typed is the line as typed, ending in NL.
Input(typed) == SubSeq(typed, 1, Len(typed) - 1)

\* Concatenation of lines lo..hi of a sequence of lines, each followed by a
\* line end.
RECURSIVE JoinRange(_, _, _)
JoinRange(lines, lo, hi) ==
    IF lo > hi THEN <<>>
    ELSE IF lo = hi THEN lines[lo] \o <<NL>>
    ELSE LET mid == (lo + hi) \div 2
         IN  JoinRange(lines, lo, mid) \o JoinRange(lines, mid + 1, hi)

\* The text of a triple-quoted literal whose lines are `lines`.
Join(lines) == JoinRange(lines, 1, Len(lines))

\* ------------------------------------------------------------------------
\* env_template (create_env_file)
\* ------------------------------------------------------------------------

Banner == <<"#", " ", "=", "=", "=">>
Comment(text) == <<"#", " ", text>>
Blank == <<>>
Fixed(key, value) == <<key, "=", value>>
Field(key, placeholder) == <<key, "=", placeholder>>

TemplateHeader ==
    << Banner, Comment("MICROCAP QUANT - ENVIRONMENT VARIABLES"), Banner, Blank >>

TemplateAIKeys ==
    << Banner, Comment("AI API KEYS (Required)"), Banner, Blank,
       Comment("OpenAI API Key (Required for GPT-4o and o3 deep research)"),
       Comment("Get from: https://platform.openai.com/api-keys"),
       Field("OPENAI_API_KEY", "{openai_key}"),
       Blank,
       Comment("Anthropic API Key (Optional - backup AI provider)"),
       Comment("Get from: https://console.anthropic.com/"),
       Field("ANTHROPIC_API_KEY", "{anthropic_key}"),
       Blank,
       Comment("Groq API Key (Optional - fast inference backup)"),
       Comment("Get from: https://console.groq.com/"),
       Field("GROQ_API_KEY", "{groq_key}"),
       Blank >>

TemplateTradingKeys ==
    << Banner, Comment("TRADING API KEYS (Required)"), Banner, Blank,
       Comment("Alpaca Trading API Keys"),
       Comment("Get from: https://alpaca.markets/ (Paper Trading for testing)"),
       Field("ALPACA_API_KEY", "{alpaca_key}"),
       Field("ALPACA_SECRET_KEY", "{alpaca_secret}"),
       Blank >>

TemplateAIModels ==
    << Banner, Comment("AI MODEL CONFIGURATION"), Banner, Blank,
       Comment("Primary AI model for daily decisions (16:30 EST cycle)"),
       Fixed("AI_PRIMARY_MODEL", "gpt-4o"),
       Blank,
       Comment("Backup AI model if primary fails"),
       Fixed("AI_BACKUP_MODEL", "gpt-4"),
       Blank,
       Comment("Deep research model for pre-market analysis (09:30 EST cycle)"),
       Fixed("AI_RESEARCH_MODEL", "o3-deep-research-2025-06-26"),
       Blank >>

TemplateTrading ==
    << Banner, Comment("TRADING CONFIGURATION"), Banner, Blank,
       Comment("Set to false for live trading (default: true for safety)"),
       Fixed("PAPER_TRADING", "true"),
       Blank,
       Comment("Starting capital in USD"),
       Field("STARTING_CASH", "{starting_cash}"),
       Blank,
       Comment("Maximum position size as percentage (0.15 = 15%)"),
       Fixed("MAX_POSITION_PCT", "0.15"),
       Blank,
       Comment("Stop loss percentage (0.15 = 15%)"),
       Fixed("STOP_LOSS_PCT", "0.15"),
       Blank,
       Comment("Maximum daily loss before circuit breaker (0.05 = 5%)"),
       Fixed("MAX_DAILY_LOSS", "0.05"),
       Blank >>

TemplateNotifications ==
    << Banner, Comment("NOTIFICATIONS (Optional)"), Banner, Blank,
       Comment("Slack webhook for alerts"),
       Field("SLACK_WEBHOOK", "{slack_webhook}"),
       Blank,
       Comment("Email notifications (requires SMTP setup)"),
       Fixed("EMAIL_ALERTS", "false"),
       Field("EMAIL_FROM", "{email_from}"),
       Field("EMAIL_TO", "{email_to}"),
       Field("EMAIL_PASSWORD", "{email_password}"),
       Blank >>

TemplateAdvanced ==
    << Banner, Comment("ADVANCED SETTINGS"), Banner, Blank,
       Comment("Market cap maximum for microcap universe ($300M default)"),
       Fixed("MARKET_CAP_MAX", "300000000"),
       Blank,
       Comment("Minimum daily volume filter ($50K default)"),
       Fixed("MIN_VOLUME", "50000"),
       Blank,
       Comment("Timezone for trading schedules"),
       Fixed("TIMEZONE", "US/Eastern"),
       Blank,
       Comment("Data directory for portfolio and trade logs"),
       Fixed("DATA_DIR", "data") >>

\* A plausible slip in the template: EMAIL_FROM is listed twice and
\* EMAIL_TO is lost.
env_template_dup ==
    Join(TemplateHeader \o TemplateAIKeys \o TemplateTradingKeys
         \o TemplateAIModels \o TemplateTrading
         \o [i \in 1..Len(TemplateNotifications) |->
               IF TemplateNotifications[i] = Field("EMAIL_TO", "{email_to}")
               THEN Field("EMAIL_FROM", "{email_to}")
               ELSE TemplateNotifications[i]]
         \o TemplateAdvanced)

\* A plausible slip in the template: the AI model and EMAIL_ALERTS lines are
\* left out.
env_template_short ==
    Join(TemplateHeader \o TemplateAIKeys \o TemplateTradingKeys
         \o TemplateTrading
         \o SelectSeq(TemplateNotifications,
                      LAMBDA l : l # Fixed("EMAIL_ALERTS", "false"))
         \o TemplateAdvanced)

env_template ==
    Join(TemplateHeader \o TemplateAIKeys \o TemplateTradingKeys
         \o TemplateAIModels \o TemplateTrading \o TemplateNotifications
         \o TemplateAdvanced)

\* The prompts of create_env_file in the order they are asked, with the
\* placeholder each answer fills.
Placeholders ==
    << "{openai_key}", "{anthropic_key}", "{groq_key}", "{alpaca_key}",
       "{alpaca_secret}", "{starting_cash}", "{slack_webhook}",
       "{email_from}", "{email_to}", "{email_password}" >>

NumPrompts == Len(Placeholders)

DefaultCash == <<"1", "0", "0", "0">>

\* The fallback applied to the stripped answer of prompt i (`or "1000"`,
\* `or ""`).
Fallback(i) == IF Placeholders[i] = "{starting_cash}" THEN DefaultCash ELSE <<>>

\* str.format(**kwargs): every placeholder of the template is replaced by
\* its value in one pass; text brought in by a value is not scanned again.
RECURSIVE FormatRange(_, _, _, _)
FormatRange(template, kwargs, lo, hi) ==
    IF lo > hi THEN <<>>
    ELSE IF lo = hi
    THEN (IF template[lo] \in DOMAIN kwargs THEN kwargs[template[lo]]
          ELSE <<template[lo]>>)
    ELSE LET mid == (lo + hi) \div 2
         IN  FormatRange(template, kwargs, lo, mid)
             \o FormatRange(template, kwargs, mid + 1, hi)

Format(template, kwargs) == FormatRange(template, kwargs, 1, Len(template))

\* The keyword arguments of env_template.format(...) from the answers.
Kwargs(ans) ==
    [p \in {Placeholders[i] : i \in 1..NumPrompts} |->
        ans[CHOOSE i \in 1..NumPrompts : Placeholders[i] = p]]

\* env_content
Render(ans) == Format(env_template, Kwargs(ans))

\* ------------------------------------------------------------------------
\* The environment: interpreter version, operator, child processes, files
\* ------------------------------------------------------------------------

\* sys.version_info as <<major, minor>> of the interpreters the script may
\* be started with.
Versions == { <<2, 11>>, <<3, 8>>, <<3, 9>> }

MinVersion == <<3, 9>>

\* Tuple comparison a < b of Python, on pairs.
TupleLess(a, b) == a[1] < b[1] \/ (a[1] = b[1] /\ a[2] < b[2])

\* A plausible slip: the components are compared one by one.
VersionTooOldMinorOnly(v) == v[1] < MinVersion[1] /\ v[2] < MinVersion[2]

\* sys.version_info < (3, 9)
VersionTooOld(v) == TupleLess(v, MinVersion)

\* What the operator may type at prompt i of create_env_file, before
\* padding with blanks.
PromptCores(i) ==
    CASE i = 1  -> { <<>>, <<"s", "k", "-", "a">>, <<"DATA_DIR", "=", "x">> }
      [] i = 2  -> { <<>>, <<"s", "k", "-", "a", "n", "t">> }
      [] i = 3  -> { <<>>, <<"{email_to}">> }
      [] i = 4  -> { <<>>, <<"A", "K">> }
      [] i = 5  -> { <<>>, <<"#", "s">> }
      [] i = 6  -> { <<>>, <<"5", " ", "k">> }
      [] i = 7  -> { <<>>, <<"h", "=", "1">> }
      [] i = 8  -> { <<>>, <<"a", "@", "b">> }
      [] i = 9  -> { <<>>, <<"c", "@", "d">> }
      [] OTHER  -> { <<>>, <<"p", " ", "w">> }

\* What the operator may type at the deployment prompt, before padding.
ChoiceCores == { <<"1">>, <<"2">>, <<"3">>, <<"4">>, <<"5">>, <<>> }

Pad(n) == [j \in 1..n |-> " "]

\* The lines the operator may type for an answer: the answer with up to
\* MaxPad blanks on each side, ended by the line end.
Typed(cores) ==
    { Pad(l) \o c \o Pad(r) \o <<NL>> : c \in cores, l \in 0..MaxPad, r \in 0..MaxPad }

\* A file that does not exist, and a file with a content.
NoFile == [exists |-> FALSE, content |-> <<>>]
File(content) == [exists |-> TRUE, content |-> content]

\* A configuration document left by an earlier run.
OldDocument == File(Join(<< Fixed("OPENAI_API_KEY", "old") >>))

\* directories of create_directories, in loop order
Directories == << "data", "logs", "reports" >>

DirectorySet == { Directories[i] : i \in 1..Len(Directories) }

\* What the working directory may hold when the script starts: nothing, a
\* directory the operator made, the leavings of a run that aborted at the
\* installation, and those of a complete run.
InitialFiles ==
    { [env |-> NoFile, dirs |-> {}],
      [env |-> NoFile, dirs |-> {"data"}],
      [env |-> OldDocument, dirs |-> {}],
      [env |-> OldDocument, dirs |-> DirectorySet] }

\* Outcomes of subprocess.run for the child processes of the script.
PipOutcomes == { "zero", "nonzero" }
TestOutcomes == { "zero", "nonzero", "timeout" }
ProbeOutcomes == { "zero", "nonzero", "notfound" }
DockerOutcomes == { "zero", "nonzero" }

\* os.getenv("USER") in deploy_local; unset gives None.
Users == { "trader", "None" }

\* A plausible slip: directories are created before the dependencies are
\* installed.
StagesProvisionFirst ==
    << "VersionCheck", "Collecting", "Provisioning", "Installing",
       "SmokeTesting", "Dispatching" >>

\* The stages of main in the order main calls them.
Stages ==
    << "VersionCheck", "Collecting", "Installing", "Provisioning",
       "SmokeTesting", "Dispatching" >>

\* The stage main runs after stage s.
StageAfter(s) ==
    LET i == CHOOSE j \in 1..Len(Stages) : Stages[j] = s
    IN  IF i < Len(Stages) THEN Stages[i + 1] ELSE "Reporting"

\* ------------------------------------------------------------------------
\* State
\* ------------------------------------------------------------------------

VARIABLES
    pc,          \* where main is: a stage, "Reporting", "Done", "Aborted", "Crashed"
    step,        \* position inside show_deployment_options / deploy_docker
    version,     \* sys.version_info
    typed,       \* the line the last input() of create_env_file read, until it returns
    answers,     \* locals of create_env_file read so far, in prompt order
    choice,      \* local of show_deployment_options
    envFile,     \* content of .env, or NoFile
    envWrites,   \* number of times this run wrote .env
    dirs,        \* the directories that exist
    mkdirs,      \* the mkdir calls of this run, in order
    serviceFile, \* content of microcap-quant.service, or NoFile
    procs,       \* the child processes this run started, in order
    prompts,     \* the prompts this run issued, in order
    output,      \* the status lines this run printed, in order
    exitStatus,  \* exit status of the process, -1 until it ends
    trace        \* the stages this run entered, in order

vars ==
    << pc, step, version, typed, answers, choice, envFile, envWrites, dirs, mkdirs,
       serviceFile, procs, prompts, output, exitStatus, trace >>

fsVars == << envFile, envWrites, dirs, mkdirs, serviceFile >>

\* main has printed the banner and is about to call check_python_version.
Init ==
    /\ pc = "VersionCheck"
    /\ step = "none"
    /\ version \in Versions
    /\ typed = <<>>
    /\ answers = <<>>
    /\ choice = <<>>
    /\ \E f \in InitialFiles : envFile = f.env /\ dirs = f.dirs
    /\ envWrites = 0
    /\ mkdirs = <<>>
    /\ serviceFile = NoFile
    /\ procs = <<>>
    /\ prompts = <<>>
    /\ output = <<"banner">>
    /\ exitStatus = -1
    /\ trace = <<"VersionCheck">>

\* main moves on from stage s to the next call.
Advance(s) ==
    /\ pc' = StageAfter(s)
    /\ trace' = IF StageAfter(s) = "Reporting" THEN trace
                ELSE Append(trace, StageAfter(s))
    /\ UNCHANGED exitStatus

\* sys.exit(1)
Exit1 ==
    /\ pc' = "Aborted"
    /\ exitStatus' = 1
    /\ trace' = trace

\* An exception nothing catches: the interpreter prints the traceback and
\* the process ends with status 1.
Uncaught ==
    /\ pc' = "Crashed"
    /\ exitStatus' = 1
    /\ trace' = trace
    /\ output' = Append(output, "Traceback (most recent call last)")

\* ------------------------------------------------------------------------
\* Child processes
\* ------------------------------------------------------------------------

\* A plausible slip: check=True is left out, so a non-zero exit raises
\* nothing.
RaisedUnchecked(outcome, check) ==
    CASE outcome = "timeout"  -> "TimeoutExpired"
      [] outcome = "notfound" -> "FileNotFoundError"
      [] OTHER                -> "none"

\* The exception subprocess.run raises for an outcome of the child, "none"
\* when it returns: a missing executable raises FileNotFoundError, an
\* expired timeout TimeoutExpired, a non-zero exit CalledProcessError when
\* check=True.
Raised(outcome, check) ==
    CASE outcome = "timeout"            -> "TimeoutExpired"
      [] outcome = "notfound"           -> "FileNotFoundError"
      [] outcome = "nonzero" /\ check   -> "CalledProcessError"
      [] OTHER                          -> "none"

\* A plausible slip: run_tests catches subprocess.CalledProcessError only.
CaughtByRunTestsNarrow(exc) == exc = "CalledProcessError"

\* `except Exception` of run_tests
CaughtByRunTests(exc) ==
    exc \in { "CalledProcessError", "TimeoutExpired", "FileNotFoundError" }

\* `except subprocess.CalledProcessError` of install_dependencies and of
\* deploy_docker
CaughtAsCalledProcessError(exc) == exc = "CalledProcessError"

\* A plausible slip: an unrecognized choice falls through to the last
\* strategy.
StrategyDefaultLocal(c) ==
    CASE c = <<"1">> -> "railway"
      [] c = <<"2">> -> "render"
      [] c = <<"3">> -> "docker"
      [] OTHER       -> "local"

\* A plausible slip: two branches of the chain call each other's function.
StrategySwapped(c) ==
    CASE c = <<"1">> -> "railway"
      [] c = <<"2">> -> "render"
      [] c = <<"3">> -> "local"
      [] c = <<"4">> -> "docker"
      [] OTHER       -> "invalid"

\* The if/elif chain of show_deployment_options.
Strategy(c) ==
    CASE c = <<"1">> -> "railway"
      [] c = <<"2">> -> "render"
      [] c = <<"3">> -> "docker"
      [] c = <<"4">> -> "local"
      [] OTHER       -> "invalid"

\* Path(directory).mkdir(exist_ok=True) on the set of existing directories.
Mkdir(existing, d) == existing \cup {d}

\* A plausible slip: exist_ok is left out, so an existing directory raises
\* FileExistsError.
MkdirRaisesIfExists(existing, d) == d \in existing

\* Whether Path(directory).mkdir(exist_ok=True) raises: with exist_ok an
\* existing directory is accepted, so it does not.
MkdirRaises(existing, d) == FALSE

\* A plausible slip: .env is opened for appending.
AppendFile(old, content) == File(old.content \o content)

\* open(name, "w") and write: the new content replaces whatever was there.
WriteFile(old, content) == File(content)

\* ------------------------------------------------------------------------
\* Actions
\* ------------------------------------------------------------------------

check_python_version ==
    /\ pc = "VersionCheck"
    /\ IF VersionTooOld(version)
       THEN /\ output' = output \o <<"Error: Python 3.9+ required", "Current version">>
            /\ Exit1
       ELSE /\ output' = Append(output, "Python detected")
            /\ Advance("VersionCheck")
    /\ UNCHANGED << step, version, typed, answers, choice, fsVars, procs, prompts >>

OpenAIPrefix == <<"s", "k", "-">>

\* One prompt of create_env_file: input(...).strip(), with its fallback,
\* and the prefix warning after the first.
create_env_file_ask ==
    /\ pc = "Collecting"
    /\ Len(answers) < NumPrompts
    /\ LET i == Len(answers) + 1 IN
       \E line \in Typed(PromptCores(i)) :
          LET a == OrDefault(Strip(Input(line)), Fallback(i)) IN
          /\ typed' = line
          /\ answers' = Append(answers, a)
          /\ prompts' = Append(prompts, Placeholders[i])
          /\ output' = IF i = 1 /\ ~StartsWith(a, OpenAIPrefix)
                       THEN Append(output, "Warning: OpenAI key should start with 'sk-'")
                       ELSE output
    /\ UNCHANGED << pc, step, version, choice, fsVars, procs, exitStatus, trace >>

\* The end of create_env_file: format the template, write .env, return.
create_env_file_write ==
    /\ pc = "Collecting"
    /\ Len(answers) = NumPrompts
    /\ envFile' = WriteFile(envFile, Render(answers))
    /\ envWrites' = envWrites + 1
    /\ output' = Append(output, ".env file created successfully")
    /\ typed' = <<>>
    /\ Advance("Collecting")
    /\ UNCHANGED << step, version, answers, choice, dirs, mkdirs, serviceFile,
                    procs, prompts >>

install_dependencies ==
    /\ pc = "Installing"
    /\ \E outcome \in PipOutcomes :
          /\ procs' = Append(procs, <<"pip install -r requirements.txt", outcome>>)
          /\ IF CaughtAsCalledProcessError(Raised(outcome, TRUE))
             THEN /\ output' = output \o <<"Error installing dependencies", "Error output">>
                  /\ Exit1
             ELSE /\ output' = Append(output, "Dependencies installed successfully")
                  /\ Advance("Installing")
    /\ UNCHANGED << step, version, typed, answers, choice, fsVars, prompts >>

\* One iteration of the loop of create_directories.
create_directories ==
    /\ pc = "Provisioning"
    /\ LET d == Directories[Len(mkdirs) + 1] IN
          /\ mkdirs' = Append(mkdirs, d)
          /\ IF MkdirRaises(dirs, d)
             THEN /\ UNCHANGED dirs
                  /\ Uncaught
             ELSE /\ dirs' = Mkdir(dirs, d)
                  /\ output' = Append(output, "Created " \o d)
                  /\ IF Len(mkdirs) + 1 = Len(Directories)
                     THEN Advance("Provisioning")
                     ELSE UNCHANGED << pc, trace, exitStatus >>
    /\ UNCHANGED << step, version, typed, answers, choice, envFile, envWrites,
                    serviceFile, procs, prompts >>

run_tests ==
    /\ pc = "SmokeTesting"
    /\ \E outcome \in TestOutcomes :
          LET exc == Raised(outcome, FALSE) IN
          /\ procs' = Append(procs, <<"tests/test_ai_only.py", outcome>>)
          /\ IF exc = "none"
             THEN /\ output' = IF outcome = "zero"
                               THEN Append(output, "AI connection test passed")
                               ELSE output \o <<"AI test failed - check your API keys", "Error">>
                  /\ Advance("SmokeTesting")
                  /\ step' = "prompt"
             ELSE IF CaughtByRunTests(exc)
             THEN /\ output' = Append(output, "Test failed")
                  /\ Advance("SmokeTesting")
                  /\ step' = "prompt"
             ELSE /\ Uncaught
                  /\ UNCHANGED step
    /\ UNCHANGED << version, typed, answers, choice, fsVars, prompts >>

\* The menu and the prompt of show_deployment_options.
show_deployment_options ==
    /\ pc = "Dispatching"
    /\ step = "prompt"
    /\ \E line \in Typed(ChoiceCores) : choice' = Strip(Input(line))
    /\ prompts' = Append(prompts, "choice")
    /\ output' = Append(output, "DEPLOYMENT OPTIONS")
    /\ step' = "dispatch"
    /\ UNCHANGED << pc, version, typed, answers, fsVars, procs, exitStatus, trace >>

\* show_deployment_options returns to main.
Return ==
    /\ Advance("Dispatching")
    /\ step' = "none"

deploy_railway ==
    /\ pc = "Dispatching"
    /\ step = "dispatch"
    /\ Strategy(choice) = "railway"
    /\ output' = Append(output, "RAILWAY DEPLOYMENT")
    /\ Return
    /\ UNCHANGED << version, typed, answers, choice, fsVars, procs, prompts >>

deploy_render ==
    /\ pc = "Dispatching"
    /\ step = "dispatch"
    /\ Strategy(choice) = "render"
    /\ output' = Append(output, "RENDER DEPLOYMENT")
    /\ Return
    /\ UNCHANGED << version, typed, answers, choice, fsVars, procs, prompts >>

\* One subprocess.run of deploy_docker inside its try block: on success
\* print ok and go on to the step after, on CalledProcessError print the
\* failure and return, on any other exception unwind main.
DockerCall(cmd, outcomes, ok, after) ==
    \E outcome \in outcomes :
       LET exc == Raised(outcome, TRUE) IN
       /\ procs' = Append(procs, <<cmd, outcome>>)
       /\ IF exc = "none"
          THEN /\ output' = Append(output, ok)
               /\ IF after = "return"
                  THEN Return
                  ELSE /\ step' = after
                       /\ UNCHANGED << pc, trace, exitStatus >>
          ELSE IF CaughtAsCalledProcessError(exc)
          THEN /\ output' = output \o <<"Docker not available or failed",
                                        "Install Docker from https://docker.com">>
               /\ Return
          ELSE /\ Uncaught
               /\ UNCHANGED step

deploy_docker_probe ==
    /\ pc = "Dispatching"
    /\ step = "dispatch"
    /\ Strategy(choice) = "docker"
    /\ DockerCall("docker --version", ProbeOutcomes, "Docker detected", "build")
    /\ UNCHANGED << version, typed, answers, choice, fsVars, prompts >>

deploy_docker_build ==
    /\ pc = "Dispatching"
    /\ step = "build"
    /\ DockerCall("docker build", DockerOutcomes, "Docker image built", "run")
    /\ UNCHANGED << version, typed, answers, choice, fsVars, prompts >>

deploy_docker_run ==
    /\ pc = "Dispatching"
    /\ step = "run"
    /\ DockerCall("docker run", DockerOutcomes, "Docker container started", "return")
    /\ UNCHANGED << version, typed, answers, choice, fsVars, prompts >>

\* service_content of deploy_local: the unit template with {user} and
\* {cwd} filled in.
ServiceContent(user) ==
    Join(<< <<"[Unit]">>, <<"[Service]">>, <<"User", "=", user>>,
            <<"WorkingDirectory", "=", "cwd">>, <<"Restart", "=", "always">>,
            <<"RestartSec", "=", "10">>, <<"[Install]">> >>)

\* A plausible slip: the script activates the unit itself.
deploy_local_systemctl ==
    /\ pc = "Dispatching"
    /\ step = "dispatch"
    /\ Strategy(choice) = "local"
    /\ \E user \in Users : serviceFile' = WriteFile(serviceFile, ServiceContent(user))
    /\ procs' = Append(procs, <<"systemctl enable microcap-quant", "zero">>)
    /\ output' = Append(output, "Systemd service file created: microcap-quant.service")
    /\ Return
    /\ UNCHANGED << version, typed, answers, choice, envFile, envWrites, dirs,
                    mkdirs, prompts >>

deploy_local ==
    /\ pc = "Dispatching"
    /\ step = "dispatch"
    /\ Strategy(choice) = "local"
    /\ \E user \in Users : serviceFile' = WriteFile(serviceFile, ServiceContent(user))
    /\ output' = Append(output, "Systemd service file created: microcap-quant.service")
    /\ Return
    /\ UNCHANGED << version, typed, answers, choice, envFile, envWrites, dirs,
                    mkdirs, procs, prompts >>

\* The else branch of show_deployment_options.
invalid_choice ==
    /\ pc = "Dispatching"
    /\ step = "dispatch"
    /\ Strategy(choice) = "invalid"
    /\ output' = Append(output, "Invalid choice. Exiting.")
    /\ Return
    /\ UNCHANGED << version, typed, answers, choice, fsVars, procs, prompts >>

\* The end of main: the completion report, then the process ends normally.
main_complete ==
    /\ pc = "Reporting"
    /\ output' = Append(output, "DEPLOYMENT COMPLETE!")
    /\ pc' = "Done"
    /\ exitStatus' = 0
    /\ UNCHANGED << step, version, typed, answers, choice, fsVars, procs,
                    prompts, trace >>

Next ==
    \/ check_python_version
    \/ create_env_file_ask
    \/ create_env_file_write
    \/ install_dependencies
    \/ create_directories
    \/ run_tests
    \/ show_deployment_options
    \/ deploy_railway
    \/ deploy_render
    \/ deploy_docker_probe
    \/ deploy_docker_build
    \/ deploy_docker_run
    \/ deploy_local
    \/ invalid_choice
    \/ main_complete

Spec == Init /\ [][Next]_vars

TypeOK ==
    /\ pc \in { "VersionCheck", "Collecting", "Installing", "Provisioning",
                "SmokeTesting", "Dispatching", "Reporting", "Done", "Aborted",
                "Crashed" }
    /\ exitStatus \in { -1, 0, 1 }
    /\ (exitStatus = -1) = (pc \notin { "Done", "Aborted", "Crashed" })

\* ------------------------------------------------------------------------
\* Reading a document as its consumers do: newline-delimited KEY=value
\* lines; comment lines and blank lines carry no weight.
\* ------------------------------------------------------------------------

Range(f) == { f[i] : i \in DOMAIN f }

\* The split of tokens lo..hi of doc at line ends: the text before the
\* first line end, the complete lines between the first and the last line
\* end, the text after the last line end.
RECURSIVE SplitRange(_, _, _)
SplitRange(doc, lo, hi) ==
    IF lo = hi
    THEN (IF doc[lo] = NL
          THEN [nl |-> TRUE, head |-> <<>>, mid |-> <<>>, tail |-> <<>>]
          ELSE [nl |-> FALSE, head |-> <<doc[lo]>>, mid |-> <<>>, tail |-> <<>>])
    ELSE LET m == (lo + hi) \div 2
             a == SplitRange(doc, lo, m)
             b == SplitRange(doc, m + 1, hi)
         IN  IF ~a.nl
             THEN [nl |-> b.nl, head |-> a.head \o b.head, mid |-> b.mid,
                   tail |-> b.tail]
             ELSE IF ~b.nl
             THEN [nl |-> TRUE, head |-> a.head, mid |-> a.mid,
                   tail |-> a.tail \o b.head]
             ELSE [nl |-> TRUE, head |-> a.head,
                   mid |-> a.mid \o << a.tail \o b.head >> \o b.mid,
                   tail |-> b.tail]

\* The lines of a document.
Lines(doc) ==
    IF doc = <<>> THEN <<>>
    ELSE LET r == SplitRange(doc, 1, Len(doc))
         IN  <<r.head>> \o r.mid \o (IF r.tail = <<>> THEN <<>> ELSE <<r.tail>>)

IsKeyLine(line) ==
    /\ line # <<>>
    /\ line[1] # "#"
    /\ "=" \in Range(line)

FirstEq(line) ==
    CHOOSE i \in 1..Len(line) :
        line[i] = "=" /\ \A j \in 1..(i - 1) : line[j] # "="

KeyOf(line) == SubSeq(line, 1, FirstEq(line) - 1)

ValueOf(line) == SubSeq(line, FirstEq(line) + 1, Len(line))

KeyLines(doc) == SelectSeq(Lines(doc), IsKeyLine)

\* The keys of a document in the order of their lines.
Keys(doc) == LET kl == KeyLines(doc) IN [i \in 1..Len(kl) |-> KeyOf(kl[i])]

\* The values a document gives for key (a one-token name).
Values(doc, key) ==
    LET kl == KeyLines(doc)
    IN  { ValueOf(kl[i]) : i \in { j \in 1..Len(kl) : KeyOf(kl[j]) = <<key>> } }

NoDuplicates(seq) ==
    \A i, j \in 1..Len(seq) : seq[i] = seq[j] => i = j

IsPrefix(a, b) == Len(a) <= Len(b) /\ a = SubSeq(b, 1, Len(a))

\* ------------------------------------------------------------------------
\* Claims
\* ------------------------------------------------------------------------

ExpectedOrder ==
    << "VersionCheck", "Collecting", "Installing", "Provisioning",
       "SmokeTesting", "Dispatching" >>

\* The effects each stage leaves behind, for a stage that has finished.
StageEffects(s) ==
    CASE s = "VersionCheck" -> "Python detected" \in Range(output)
      [] s = "Collecting"   -> Len(prompts) >= NumPrompts /\ envWrites = 1
      [] s = "Installing"   -> Len(procs) >= 1 /\ procs[1][2] = "zero"
      [] s = "Provisioning" -> mkdirs = Directories
      [] s = "SmokeTesting" -> Len(procs) >= 2
      [] OTHER              -> "choice" \in Range(prompts)

\* C1: the stages of main run in the fixed order version check, config
\* collection, dependency installation, directory provisioning, smoke test,
\* deployment dispatch: the stages entered so far are a prefix of that
\* order (so none is entered twice or ahead of an earlier one), the stage
\* main is in is the last one entered, every stage before it has finished
\* and left its effects, and a run that reaches Done entered all six.
C1_StagesInFixedOrder ==
    /\ IsPrefix(trace, ExpectedOrder)
    /\ pc \in Range(ExpectedOrder) => pc = trace[Len(trace)]
    /\ \A i \in 1..(Len(trace) - 1) : StageEffects(trace[i])
    /\ pc \in { "Reporting", "Done" } =>
          /\ trace = ExpectedOrder
          /\ \A i \in 1..Len(trace) : StageEffects(trace[i])
    /\ Len(prompts) > 0 => "Collecting" \in Range(trace)
    /\ Len(procs) > 0 => "Installing" \in Range(trace)
    /\ Len(mkdirs) > 0 => "Provisioning" \in Range(trace)
    /\ Len(procs) > 1 => "SmokeTesting" \in Range(trace)
    /\ "choice" \in Range(prompts) => "Dispatching" \in Range(trace)

C1_Witness == pc = "Done" /\ trace = ExpectedOrder

\* C2: with an interpreter below 3.9 the process exits with a non-zero
\* status, and then no prompt has been issued, .env has not been written,
\* no directory has been created and no child process has been started.
C2_OldVersionExitsClean ==
    (version[1] < 3 \/ (version[1] = 3 /\ version[2] < 9)) /\ pc # "VersionCheck"
    => /\ pc = "Aborted"
       /\ exitStatus = 1
       /\ prompts = <<>>
       /\ envWrites = 0
       /\ envFile \in { NoFile, OldDocument }
       /\ mkdirs = <<>>
       /\ procs = <<>>
       /\ trace = <<"VersionCheck">>

C2_Witness == pc = "Aborted" /\ version = <<2, 11>> /\ envFile = OldDocument

PipFailed == \E i \in 1..Len(procs) : procs[i] = <<"pip install -r requirements.txt", "nonzero">>

\* C3: when the package manager exits non-zero the run is Aborted with a
\* non-zero exit status, and no later stage has run: no directory was
\* created, no smoke test was started, no deployment prompt was issued.
C3_InstallFailureAborts ==
    PipFailed
    => /\ pc = "Aborted"
       /\ exitStatus = 1
       /\ trace = << "VersionCheck", "Collecting", "Installing" >>
       /\ mkdirs = <<>>
       /\ Len(procs) = 1
       /\ "choice" \notin Range(prompts)
       /\ serviceFile = NoFile

C3_Witness == PipFailed /\ pc = "Aborted" /\ envWrites = 1

\* C4: a smoke test is never fatal: from SmokeTesting every step goes to
\* Dispatching with the process still running, whatever the health check
\* did (zero, non-zero, timeout), and the next step after that issues the
\* deployment prompt.
C4_SmokeTestNeverFatal ==
    [][/\ pc = "SmokeTesting" =>
             /\ pc' = "Dispatching"
             /\ step' = "prompt"
             /\ exitStatus' = -1
             /\ Len(procs') = Len(procs) + 1
             /\ procs'[Len(procs')][1] = "tests/test_ai_only.py"
       /\ pc = "Dispatching" /\ step = "prompt" =>
             /\ pc' = "Dispatching"
             /\ exitStatus' = -1
             /\ prompts' = Append(prompts, "choice")]_vars

C4_Witness ==
    /\ "choice" \in Range(prompts)
    /\ Len(procs) >= 2
    /\ procs[2] = <<"tests/test_ai_only.py", "timeout">>

\* C5: the exit status is non-zero exactly when the version check or the
\* dependency installation failed; every other run ends with status 0.
C5_ExitStatusIffFatalStage ==
    exitStatus # -1 =>
        ((exitStatus # 0) <=>
            ((version[1] < 3 \/ (version[1] = 3 /\ version[2] < 9)) \/ PipFailed))

\* create_env_file has just written the configuration document of this
\* run and returned.
Written == envWrites > 0 /\ pc = "Installing"

Document == envFile.content

RequiredKeys == { "OPENAI_API_KEY", "ALPACA_API_KEY", "ALPACA_SECRET_KEY" }

\* C6: in every configuration document written by config collection each
\* of OPENAI_API_KEY, ALPACA_API_KEY and ALPACA_SECRET_KEY has a non-empty
\* value, whatever the operator answered.
C6_RequiredKeysNonEmpty ==
    Written =>
        \A k \in RequiredKeys :
            /\ Values(Document, k) # {}
            /\ <<>> \notin Values(Document, k)

\* C7: the written document has every key of the template exactly once and
\* in the template's order, whatever the operator answered: the keys of its
\* lines are those of the template's lines, in order and without repeats.
C7_EveryKeyOnceInOrder ==
    Written =>
        /\ Keys(Document) = Keys(env_template)
        /\ NoDuplicates(Keys(Document))

C7_Witness ==
    /\ Written
    /\ answers[1] = <<"DATA_DIR", "=", "x">>
    /\ answers[3] = <<"{email_to}">>
    /\ answers[7] = <<"h", "=", "1">>
    /\ answers[8] = <<>>

\* The titles of the sections of a document: a comment line between two
\* banner lines.  TitleAt(lines, i) is the title that line i is.
IsTitle(lines, i) ==
    /\ 1 < i /\ i < Len(lines)
    /\ lines[i - 1] = Banner /\ lines[i + 1] = Banner
    /\ Len(lines[i]) = 3 /\ lines[i][1] = "#"

\* The title of the section line j lies in.
SectionOf(lines, j) ==
    LET before == { i \in 1..(j - 1) : IsTitle(lines, i) }
    IN  IF before = {} THEN "none"
        ELSE lines[CHOOSE i \in before : \A k \in before : k <= i][3]

\* The keys of the lines of doc in the section of that title.
KeysIn(doc, title) ==
    LET lines == Lines(doc)
    IN  { KeyOf(lines[j]) :
            j \in { k \in 1..Len(lines) :
                      IsKeyLine(lines[k]) /\ SectionOf(lines, k) = title } }

Names(keys) == { <<k>> : k \in keys }

\* C8 as amended: the keys of the written document are exactly 3 AI
\* credential keys, 2 trading credential keys, 3 AI model keys, 5 trading
\* parameter keys, 5 notification keys and 4 advanced setting keys, 22 in
\* all, and no key lies outside these sections.
C8_TwentyTwoKeysInSixGroups ==
    Written =>
        /\ KeysIn(Document, "AI API KEYS (Required)")
              = Names({ "OPENAI_API_KEY", "ANTHROPIC_API_KEY", "GROQ_API_KEY" })
        /\ KeysIn(Document, "TRADING API KEYS (Required)")
              = Names({ "ALPACA_API_KEY", "ALPACA_SECRET_KEY" })
        /\ KeysIn(Document, "AI MODEL CONFIGURATION")
              = Names({ "AI_PRIMARY_MODEL", "AI_BACKUP_MODEL", "AI_RESEARCH_MODEL" })
        /\ KeysIn(Document, "TRADING CONFIGURATION")
              = Names({ "PAPER_TRADING", "STARTING_CASH", "MAX_POSITION_PCT",
                        "STOP_LOSS_PCT", "MAX_DAILY_LOSS" })
        /\ KeysIn(Document, "NOTIFICATIONS (Optional)")
              = Names({ "SLACK_WEBHOOK", "EMAIL_ALERTS", "EMAIL_FROM", "EMAIL_TO",
                        "EMAIL_PASSWORD" })
        /\ KeysIn(Document, "ADVANCED SETTINGS")
              = Names({ "MARKET_CAP_MAX", "MIN_VOLUME", "TIMEZONE", "DATA_DIR" })
        /\ Len(Keys(Document)) = 22
        /\ Cardinality(Range(Keys(Document))) = 22

C8_Witness == Written /\ envFile = File(Render(answers)) /\ answers[2] = <<>>

\* C8 as stated: the keys of the written document are 3 AI credential
\* keys, 2 trading credential keys, 5 trading parameter keys, 4 notification
\* keys and 4 advanced setting keys, 18 in all, with none outside these
\* groups.
C8_EighteenKeysInFiveGroups ==
    Written =>
        /\ Cardinality(KeysIn(Document, "AI API KEYS (Required)")) = 3
        /\ Cardinality(KeysIn(Document, "TRADING API KEYS (Required)")) = 2
        /\ Cardinality(KeysIn(Document, "TRADING CONFIGURATION")) = 5
        /\ Cardinality(KeysIn(Document, "NOTIFICATIONS (Optional)")) = 4
        /\ Cardinality(KeysIn(Document, "ADVANCED SETTINGS")) = 4
        /\ Cardinality(Range(Keys(Document))) = 18
        /\ Range(Keys(Document)) =
              UNION { KeysIn(Document, t) :
                        t \in { "AI API KEYS (Required)", "TRADING API KEYS (Required)",
                                "TRADING CONFIGURATION", "NOTIFICATIONS (Optional)",
                                "ADVANCED SETTINGS" } }

\* s with its leading and trailing whitespace removed is r.
IsTrimOf(r, s) ==
    /\ r = <<>> \/ (r[1] \notin Whitespace /\ r[Len(r)] \notin Whitespace)
    /\ \E i \in 0..Len(s) :
          /\ i + Len(r) <= Len(s)
          /\ SubSeq(s, i + 1, i + Len(r)) = r
          /\ \A j \in (1..i) \cup ((i + Len(r) + 1)..Len(s)) : s[j] \in Whitespace

\* The answer the operator typed at the starting-capital prompt, in the
\* state right after it was read.
CashJustRead == pc = "Collecting" /\ Len(answers) = 6

CashTyped == SubSeq(typed, 1, Len(typed) - 1)

\* C9 as amended: STARTING_CASH in the rendered document equals "1000"
\* when the starting-capital answer is empty or only whitespace, and
\* otherwise equals the answer with its leading and trailing whitespace
\* removed, kept as text with no numeric parsing or validation.
C9_StartingCashDefaultOrTrimmed ==
    /\ CashJustRead =>
          /\ IsTrimOf(<<>>, CashTyped) => answers[6] = <<"1", "0", "0", "0">>
          /\ ~IsTrimOf(<<>>, CashTyped) => IsTrimOf(answers[6], CashTyped)
    /\ Written => Values(Document, "STARTING_CASH") = { answers[6] }

C9_Witness ==
    /\ CashJustRead
    /\ CashTyped = <<" ", "5", " ", "k", " ">>
    /\ answers[6] = <<"5", " ", "k">>

\* C9 as stated: STARTING_CASH equals "1000" when the answer is empty and
\* otherwise the operator's answer literally.
C9_StartingCashLiteral ==
    /\ CashJustRead =>
          answers[6] = IF CashTyped = <<>> THEN <<"1", "0", "0", "0">> ELSE CashTyped
    /\ Written => Values(Document, "STARTING_CASH") = { answers[6] }

Recognized == { <<"1">>, <<"2">>, <<"3">>, <<"4">> }

\* C10: with a deployment choice that is none of "1".."4" the dispatcher
\* runs no strategy (its step starts no process and writes no file) and
\* returns to main with the process still running; main then prints the
\* completion report and ends with status 0.
C10_UnrecognizedChoiceDoesNothing ==
    [][/\ (pc = "Dispatching" /\ step = "dispatch" /\ choice \notin Recognized) =>
             /\ pc' = "Reporting"
             /\ exitStatus' = -1
             /\ output' = Append(output, "Invalid choice. Exiting.")
             /\ UNCHANGED << procs, envFile, envWrites, dirs, mkdirs, serviceFile >>
       /\ pc = "Reporting" =>
             /\ pc' = "Done"
             /\ exitStatus' = 0
             /\ output' = Append(output, "DEPLOYMENT COMPLETE!")
             /\ UNCHANGED << procs, envFile, envWrites, dirs, mkdirs, serviceFile >>]_vars

C10_Witness ==
    /\ pc = "Done"
    /\ choice = <<"5">>
    /\ output[Len(output) - 1] = "Invalid choice. Exiting."

DockerCommands == << "docker --version", "docker build", "docker run" >>

\* The calls of the container engine this run made, in order.
DockerProcs == SelectSeq(procs, LAMBDA p : p[1] \in Range(DockerCommands))

\* The probe of the container engine failed: the engine is absent or the
\* probe command exited non-zero.
ProbeFailed ==
    \E i \in 1..Len(procs) : procs[i][1] = "docker --version" /\ procs[i][2] # "zero"

FailureReported == "Docker not available or failed" \in Range(output)

\* C11: whenever the probe of the container engine fails (engine absent or
\* probe unsuccessful), the Container strategy reports the failure and
\* returns normally to the dispatcher, and neither the image build nor the
\* container run is attempted.
C11_ProbeFailureReportedAndReturned ==
    ProbeFailed =>
        /\ FailureReported
        /\ pc \in { "Reporting", "Done" }
        /\ exitStatus \in { -1, 0 }
        /\ Len(DockerProcs) = 1

\* A call of the container engine failed: engine absent, build failed or
\* run failed.
ContainerFailed == \E i \in 1..Len(procs) :
    procs[i][1] \in Range(DockerCommands) /\ procs[i][2] # "zero"

\* C12: every failure of the Container strategy is advisory: with the
\* engine absent, the build failed or the run failed, the failure is
\* reported, the pipeline goes on to the completion report and the run
\* ends Done with status 0.
C12_ContainerFailuresAdvisory ==
    ContainerFailed =>
        /\ FailureReported
        /\ pc \in { "Reporting", "Done" }
        /\ pc = "Done" =>
              /\ exitStatus = 0
              /\ output[Len(output)] = "DEPLOYMENT COMPLETE!"

Count(seq, x) == Cardinality({ i \in 1..Len(seq) : seq[i] = x })

\* How many times each strategy has run, by what only it leaves behind.
RailwayRuns == Count(output, "RAILWAY DEPLOYMENT")
RenderRuns == Count(output, "RENDER DEPLOYMENT")
DockerRuns == Cardinality({ i \in 1..Len(procs) : procs[i][1] = "docker --version" })
LocalRuns == Count(output, "Systemd service file created: microcap-quant.service")

\* The dispatcher has called the function of the choice.
Dispatched ==
    \/ pc \in { "Reporting", "Done", "Crashed" }
    \/ pc = "Dispatching" /\ step \in { "build", "run" }

\* C13: the deployment target is asked for once per run and never
\* re-asked or changed afterwards, and for a recognized choice exactly the
\* strategy of that choice has run, once, and no other strategy; before the
\* dispatch none has run.
C13_OneChoiceOneStrategy ==
    /\ [](/\ Count(prompts, "choice") <= 1
          /\ ~Dispatched =>
                <<RailwayRuns, RenderRuns, DockerRuns, LocalRuns>> = <<0, 0, 0, 0>>
          /\ Dispatched /\ choice = <<"1">> =>
                <<RailwayRuns, RenderRuns, DockerRuns, LocalRuns>> = <<1, 0, 0, 0>>
          /\ Dispatched /\ choice = <<"2">> =>
                <<RailwayRuns, RenderRuns, DockerRuns, LocalRuns>> = <<0, 1, 0, 0>>
          /\ Dispatched /\ choice = <<"3">> =>
                <<RailwayRuns, RenderRuns, DockerRuns, LocalRuns>> = <<0, 0, 1, 0>>
          /\ Dispatched /\ choice = <<"4">> =>
                <<RailwayRuns, RenderRuns, DockerRuns, LocalRuns>> = <<0, 0, 0, 1>>)
    /\ [][("choice" \in Range(prompts)) =>
             /\ choice' = choice
             /\ prompts' = prompts]_vars

C13_Witness == pc = "Done" /\ choice = <<"1">> /\ RailwayRuns = 1

\* C14: directory provisioning is idempotent: a mkdir of a directory that
\* exists raises no error and changes nothing, no mkdir removes a
\* directory, and the loop ends with exactly data, logs and reports
\* whatever existed before, so a second run leaves what the first left.
C14_ProvisioningIdempotent ==
    /\ [](mkdirs = Directories => dirs = DirectorySet /\ pc # "Provisioning")
    /\ [][pc = "Provisioning" =>
             LET d == Directories[Len(mkdirs) + 1] IN
             /\ pc' \in { "Provisioning", "SmokeTesting" }
             /\ exitStatus' = -1
             /\ mkdirs' = Append(mkdirs, d)
             /\ dirs' = dirs \cup {d}
             /\ d \in dirs => dirs' = dirs]_vars

C14_Witness ==
    /\ pc = "Provisioning"
    /\ mkdirs = <<"data">>
    /\ dirs = DirectorySet

\* The answer the operator typed at the OpenAI key prompt, in the state
\* right after it was read.
KeyJustRead == pc = "Collecting" /\ Len(answers) = 1

KeyTyped == SubSeq(typed, 1, Len(typed) - 1)

PrefixWarnings == Count(output, "Warning: OpenAI key should start with 'sk-'")

HasPrefix(a) == Len(a) >= 3 /\ a[1] = "s" /\ a[2] = "k" /\ a[3] = "-"

\* What C15 says of the validation itself: the warning is printed exactly
\* for a key without the prefix, the process is still running after it, and
\* the document written holds the answer read as OPENAI_API_KEY.
ValidationAdvisory ==
    /\ KeyJustRead =>
          /\ PrefixWarnings = (IF HasPrefix(answers[1]) THEN 0 ELSE 1)
          /\ exitStatus = -1
    /\ pc = "Collecting" => exitStatus = -1
    /\ Written =>
          /\ Values(Document, "OPENAI_API_KEY") = { answers[1] }
          /\ PrefixWarnings = (IF HasPrefix(answers[1]) THEN 0 ELSE 1)
          /\ exitStatus = -1

\* Nothing in config collection ends the process: every step of it stays
\* in the collection or goes on to dependency installation with the
\* document written.
CollectionAdvances ==
    pc = "Collecting" =>
        /\ pc' \in { "Collecting", "Installing" }
        /\ exitStatus' = -1
        /\ IsPrefix(answers, answers')
        /\ pc' = "Installing" => envFile'.exists /\ envWrites' = 1

\* C15 as amended: credential validation is advisory and never blocking:
\* for any primary-credential answer, also one without the prefix, config
\* collection only prints a warning, still writes the document with that
\* answer, leading and trailing whitespace removed, as OPENAI_API_KEY, and
\* the pipeline advances to dependency installation.
C15_PrefixCheckAdvisory ==
    /\ [](ValidationAdvisory /\ (KeyJustRead => IsTrimOf(answers[1], KeyTyped)))
    /\ [][CollectionAdvances]_vars

C15_Witness ==
    /\ Written
    /\ answers[1] = <<"DATA_DIR", "=", "x">>
    /\ PrefixWarnings = 1

\* C15 as stated: ... the document holds the answer as given.
C15_KeyStoredAsGiven ==
    /\ ValidationAdvisory
    /\ KeyJustRead => answers[1] = KeyTyped

\* C16: the calls of the container engine are probe, build, run in that
\* order, each made only after the one before succeeded: a failed build
\* means no run, a failed run comes after a successful build, and after a
\* failure the strategy makes no further call (no cleanup, no retry).
C16_ContainerCallsInOrder ==
    LET dp == DockerProcs IN
    /\ IsPrefix([i \in 1..Len(dp) |-> dp[i][1]], DockerCommands)
    /\ \A i \in 1..(Len(dp) - 1) : dp[i][2] = "zero"
    /\ Len(procs) = Len(dp) + (IF Len(procs) < 2 THEN Len(procs) ELSE 2)
    /\ dp # <<>> => choice = <<"3">>
    /\ (dp # <<>> /\ dp[Len(dp)][2] # "zero") => pc \in { "Reporting", "Done", "Crashed" }
    /\ (pc = "Dispatching" /\ step = "build") => Len(dp) = 1
    /\ (pc = "Dispatching" /\ step = "run") => Len(dp) = 2

C16_Witness ==
    /\ pc = "Done"
    /\ Len(DockerProcs) = 2
    /\ DockerProcs[2] = <<"docker build", "nonzero">>

\* C17: only the Container strategy starts processes during dispatch: the
\* step of a managed-platform strategy starts no process and writes no
\* file, the step of the HostService strategy writes the unit file,
\* nothing else, and starts no process (no service manager), and every
\* process started during dispatch is a call of the container engine.
C17_OnlyContainerStartsProcesses ==
    /\ [](pc = "Done" /\ choice \in { <<"1">>, <<"2">>, <<"4">> } =>
             /\ Len(procs) = 2
             /\ serviceFile.exists = (choice = <<"4">>))
    /\ [][/\ (\/ output' = Append(output, "RAILWAY DEPLOYMENT")
              \/ output' = Append(output, "RENDER DEPLOYMENT")) =>
                UNCHANGED << procs, envFile, envWrites, dirs, mkdirs, serviceFile >>
          /\ (\/ serviceFile' # serviceFile
              \/ output' = Append(output, "Systemd service file created: microcap-quant.service")) =>
                /\ LocalRuns' = LocalRuns + 1
                /\ serviceFile'.exists
                /\ "[Service]" \in Range(serviceFile'.content)
                /\ UNCHANGED << procs, envFile, envWrites, dirs, mkdirs >>
          /\ (pc = "Dispatching" /\ procs' # procs) =>
                /\ choice = <<"3">>
                /\ Len(procs') = Len(procs) + 1
                /\ procs'[Len(procs')][1] \in Range(DockerCommands)
                /\ UNCHANGED << envFile, envWrites, dirs, mkdirs, serviceFile >>]_vars

C17_Witness ==
    /\ pc = "Done"
    /\ choice = <<"4">>
    /\ serviceFile.exists
    /\ Len(procs) = 2

\* C18: .env is written once per run, by config collection: the only step
\* that changes it is the write at the end of the collection, which
\* replaces whatever was there by the rendering of this run's answers; no
\* later stage writes it again.
C18_DocumentWrittenOnce ==
    /\ [](/\ envWrites <= 1
          /\ (envWrites = 1) = ("Installing" \in Range(trace)))
    /\ [][(envFile' # envFile \/ envWrites' # envWrites) =>
             /\ pc = "Collecting"
             /\ Len(answers) = NumPrompts
             /\ envWrites = 0 /\ envWrites' = 1
             /\ envFile' = File(Render(answers))]_vars

\* The run started where a complete earlier run stopped and has replaced
\* that run's document.
C18_Witness ==
    /\ Written
    /\ dirs = DirectorySet
    /\ mkdirs = <<>>
    /\ envFile # OldDocument

\* C19: a run that ends Aborted at Installing has written the
\* configuration document (all prompts answered) and has created none of
\* the directories: the directory layout is as it was at the start.
C19_InstallAbortLeavesConfigOnly ==
    (pc = "Aborted" /\ "Installing" \in Range(trace)) =>
        /\ envWrites = 1
        /\ envFile.exists /\ envFile # OldDocument
        /\ Len(prompts) = NumPrompts
        /\ mkdirs = <<>>
        /\ dirs \in { f.dirs : f \in InitialFiles }
        /\ "Provisioning" \notin Range(trace)

C19_Witness ==
    /\ pc = "Aborted"
    /\ trace[Len(trace)] = "Installing"
    /\ dirs = {"data"}
    /\ envFile.exists

\* C20: every run ends in exactly one of Done and Aborted, and no stage
\* and no prompt is repeated on the way: a process that has ended is in
\* Done or Aborted, a process in Done or Aborted has ended, and the stages
\* entered and the prompts issued hold no repeats.
C20_EndsInDoneOrAborted ==
    /\ exitStatus # -1 => pc \in { "Done", "Aborted" }
    /\ pc \in { "Done", "Aborted" } => exitStatus # -1
    /\ NoDuplicates(trace)
    /\ NoDuplicates(prompts)

====
